---------------------------- MODULE Spec2Model ----------------------------
(***************************************************************************)
(* Model of the static-obstacle path decider of                            *)
(* modules/planning/tasks/path_decider/path_decider.cc.                    *)
(*                                                                         *)
(* Distances are integers counted in units of stop_distance_buffer         *)
(* (0.5 m).  A double that the code computes through std::sqrt is a record *)
(* [nan, v]: nan is TRUE for the IEEE not-a-number that std::sqrt returns  *)
(* for a negative argument, and every comparison with a NaN is false, as   *)
(* in C++.  Sqrt rounds down to the unit.                                  *)
(***************************************************************************)
EXTENDS Integers, Sequences, FiniteSets

VARIABLES
    frenet_points,      \* path_data.frenet_frame_path().points(): Seq of [s, l]
    items,              \* path_decision->path_obstacles().Items(): Seq of ids
    path_obstacles,     \* id -> the obstacle's static data and sl boundary
    path_decision,      \* id -> [longitudinal, lateral] decision slots
    flags,              \* the FLAGS_* values the decider reads
    vehicle,            \* vehicle_param().width(), MinSafeTurnRadius()
    adc_sl_boundary,    \* reference_line_info_->AdcSlBoundary()
    status,             \* what the last Process call returned
    stop_distances      \* id -> what MinimumRadiusStopDistance returned for it

vars == <<frenet_points, items, path_obstacles, path_decision, flags, vehicle,
          adc_sl_boundary, status, stop_distances>>

---------------------------------------------------------------------------
(* Bounds of the model. *)

\* lateral coordinates of obstacle boxes range over -MaxL..MaxL
MaxL == 3
\* the path's samples lie at s = 1 .. MaxS; obstacles start at 0 .. MaxS + 1
MaxS == 3
\* turning radii range up to MaxRadius, clamp limits up to MaxRadius + 1
MaxRadius == 3

---------------------------------------------------------------------------
(* Doubles that may be NaN. *)

D(x) == [nan |-> FALSE, v |-> x]
NaN == [nan |-> TRUE, v |-> 0]

\* a < b on doubles: false when either side is NaN
Less(a, b) == ~a.nan /\ ~b.nan /\ a.v < b.v

\* std::min(a, b) is (b < a) ? b : a and std::max(a, b) is (a < b) ? b : a
StdMin(a, b) == IF Less(b, a) THEN b ELSE a
StdMax(a, b) == IF Less(a, b) THEN b ELSE a

Neg(a) == IF a.nan THEN NaN ELSE D(-a.v)
Plus(a, b) == IF a.nan \/ b.nan THEN NaN ELSE D(a.v + b.v)
Minus(a, b) == IF a.nan \/ b.nan THEN NaN ELSE D(a.v - b.v)

Fabs(x) == IF x < 0 THEN -x ELSE x
IMax(a, b) == IF a < b THEN b ELSE a
IMin(a, b) == IF b < a THEN b ELSE a

\* std::sqrt: NaN below zero, else the root (rounded down to the unit)
StdSqrt(x) ==
    IF x < 0 THEN NaN
    ELSE D(CHOOSE r \in 0..x : r * r <= x /\ (r + 1) * (r + 1) > x)

---------------------------------------------------------------------------
(* Decisions and the ledger. *)

Ignore == [object_tag |-> "ignore"]
Stop(object_stop) == [object_tag |-> "stop", stop |-> object_stop]
Nudge(type, distance_l) ==
    [object_tag |-> "nudge", type |-> type, distance_l |-> distance_l]

\* a decision slot nobody has written yet
Unset == [has |-> FALSE, decider |-> "", decision |-> [object_tag |-> "none"]]
Slot(decider, decision) ==
    [has |-> TRUE, decider |-> decider, decision |-> decision]

HasLongitudinalDecision(pd, id) == pd[id].longitudinal.has
HasLateralDecision(pd, id) == pd[id].lateral.has
LongitudinalDecision(pd, id) == pd[id].longitudinal.decision
LateralDecision(pd, id) == pd[id].lateral.decision
has_ignore(decision) == decision.object_tag = "ignore"
has_stop(decision) == decision.object_tag = "stop"
has_nudge(decision) == decision.object_tag = "nudge"

\* add_decision(stage_name, id, axis, Decision) of the ledger interface
AddLongitudinalDecision(pd, tag, id, decision) ==
    [pd EXCEPT ![id].longitudinal = Slot(tag, decision)]
AddLateralDecision(pd, tag, id, decision) ==
    [pd EXCEPT ![id].lateral = Slot(tag, decision)]

---------------------------------------------------------------------------
(* The path. *)

front(points) == points[1]
back(points) == points[Len(points)]

\* evaluate_at(s): linear interpolation between the bracketing samples,
\* clamped to the nearest endpoint outside [first.s, last.s]
EvaluateByS(points, s) ==
    IF s <= front(points).s THEN front(points).l
    ELSE IF s >= back(points).s THEN back(points).l
    ELSE LET i == CHOOSE k \in 1..(Len(points) - 1) :
                      points[k].s <= s /\ s < points[k + 1].s
             p0 == points[i]
             p1 == points[i + 1]
         IN  p0.l + ((p1.l - p0.l) * (s - p0.s)) \div (p1.s - p0.s)

\* get_reference_point(s) -> (x, y, heading): a straight reference line
\* along the x axis
GetReferencePoint(s) == [x |-> s, y |-> D(0), heading |-> D(0)]

---------------------------------------------------------------------------
(* The stop-distance calculator and the stop decision. *)

stop_distance_buffer == 1

\* the clamped lateral_diff of MinimumRadiusStopDistance
LateralDiff(obstacle, adc, veh) ==
    LET sl == obstacle.sl_boundary
        d0 == IMax(Fabs(sl.start_l - adc.end_l), Fabs(sl.end_l - adc.start_l))
        d1 == IMax(d0, veh.width)
    IN  IMin(d1, veh.width + sl.end_l - sl.start_l)

\* the argument of std::sqrt in MinimumRadiusStopDistance
Radicand(min_turn_radius, lateral_diff) ==
    min_turn_radius * min_turn_radius
        - (min_turn_radius - lateral_diff) * (min_turn_radius - lateral_diff)

\* the clamp of the stop distance to the configured range
ClampStopDistance(stop_distance, fl) ==
    StdMax(StdMin(stop_distance, D(fl.max_stop_distance_obstacle)),
           D(fl.min_stop_distance_obstacle))

MinimumRadiusStopDistance(obstacle, adc, veh, fl) ==
    LET lateral_diff == LateralDiff(obstacle, adc, veh)
        stop_distance ==
            Plus(StdSqrt(Radicand(veh.min_turn_radius, lateral_diff)),
                 D(stop_distance_buffer))
    IN  ClampStopDistance(stop_distance, fl)

\* the destination branch leaves stop_distance at its initial value
GenerateObjectStopDecision_KeepsDefault(obstacle, adc, veh, fl) ==
    LET destination == obstacle.id = fl.destination_obstacle_id
        stop_distance ==
            IF destination THEN D(fl.max_stop_distance_obstacle)
            ELSE MinimumRadiusStopDistance(obstacle, adc, veh, fl)
        stop_ref_s == Minus(D(obstacle.sl_boundary.start_s), stop_distance)
        stop_ref_point == GetReferencePoint(stop_ref_s)
    IN  [reason_code |-> IF destination THEN "STOP_REASON_DESTINATION"
                         ELSE "STOP_REASON_OBSTACLE",
         distance_s |-> Neg(stop_distance),
         stop_point |-> [x |-> stop_ref_point.x, y |-> stop_ref_point.y],
         stop_heading |-> stop_ref_point.heading]

GenerateObjectStopDecision(obstacle, adc, veh, fl) ==
    LET destination == obstacle.id = fl.destination_obstacle_id
        stop_distance ==
            IF destination THEN D(fl.stop_distance_destination)
            ELSE MinimumRadiusStopDistance(obstacle, adc, veh, fl)
        stop_ref_s == Minus(D(obstacle.sl_boundary.start_s), stop_distance)
        stop_ref_point == GetReferencePoint(stop_ref_s)
    IN  [reason_code |-> IF destination THEN "STOP_REASON_DESTINATION"
                         ELSE "STOP_REASON_OBSTACLE",
         distance_s |-> Neg(stop_distance),
         stop_point |-> [x |-> stop_ref_point.x, y |-> stop_ref_point.y],
         stop_heading |-> stop_ref_point.heading]

---------------------------------------------------------------------------
(* The static-obstacle decision policy. *)

half_width(veh) == veh.width \div 2
lateral_radius(veh, fl) == half_width(veh) + fl.lateral_ignore_buffer
lateral_stop_radius(veh, fl) ==
    half_width(veh) + fl.static_decision_nudge_l_buffer

\* the loop body without the `continue` on a longitudinal stop
SkipObstacle_NoStopCheck(pd, obstacle) ==
    \/ ~obstacle.is_static
    \/ /\ HasLongitudinalDecision(pd, obstacle.id)
       /\ has_ignore(LongitudinalDecision(pd, obstacle.id))
       /\ HasLateralDecision(pd, obstacle.id)
       /\ has_ignore(LateralDecision(pd, obstacle.id))
    \/ obstacle.boundary_type = "KEEP_CLEAR"

\* the loop body without the `continue` on a keep-clear boundary
SkipObstacle_NoKeepClearCheck(pd, obstacle) ==
    \/ ~obstacle.is_static
    \/ /\ HasLongitudinalDecision(pd, obstacle.id)
       /\ has_ignore(LongitudinalDecision(pd, obstacle.id))
       /\ HasLateralDecision(pd, obstacle.id)
       /\ has_ignore(LateralDecision(pd, obstacle.id))
    \/ /\ HasLongitudinalDecision(pd, obstacle.id)
       /\ has_stop(LongitudinalDecision(pd, obstacle.id))

\* the four `continue`s at the head of the loop body
SkipObstacle(pd, obstacle) ==
    \/ ~obstacle.is_static
    \/ /\ HasLongitudinalDecision(pd, obstacle.id)
       /\ has_ignore(LongitudinalDecision(pd, obstacle.id))
       /\ HasLateralDecision(pd, obstacle.id)
       /\ has_ignore(LateralDecision(pd, obstacle.id))
    \/ /\ HasLongitudinalDecision(pd, obstacle.id)
       /\ has_stop(LongitudinalDecision(pd, obstacle.id))
    \/ obstacle.boundary_type = "KEEP_CLEAR"

\* the obstacle starts before the first or after the last path sample
OutOfPathRange(points, sl_boundary) ==
    \/ sl_boundary.start_s < front(points).s
    \/ sl_boundary.start_s > back(points).s

\* the if / else-if chain on the lateral clearance
LateralBranchDecision(pd, obstacle, curr_l) ==
    LET sl == obstacle.sl_boundary
        lr == lateral_radius(vehicle, flags)
        lsr == lateral_stop_radius(vehicle, flags)
    IN  IF curr_l - lr > sl.end_l \/ curr_l + lr < sl.start_l
        THEN AddLateralDecision(pd, "PathDecider", obstacle.id, Ignore)
        ELSE IF curr_l - lsr < sl.end_l /\ curr_l + lsr > sl.start_l
        THEN AddLongitudinalDecision(pd, "PathDecider", obstacle.id,
                 Stop(GenerateObjectStopDecision(obstacle, adc_sl_boundary,
                                                 vehicle, flags)))
        ELSE IF flags.enable_nudge_decision /\ curr_l - lsr > sl.end_l
        THEN AddLateralDecision(pd, "PathDecider", obstacle.id,
                 Nudge("LEFT_NUDGE", flags.nudge_distance_obstacle))
        ELSE IF flags.enable_nudge_decision
        THEN AddLateralDecision(pd, "PathDecider", obstacle.id,
                 Nudge("RIGHT_NUDGE", -flags.nudge_distance_obstacle))
        ELSE pd

\* an out-of-range obstacle gets the lateral Ignore only
ObstacleDecision_LateralOnly(pd, obstacle) ==
    IF SkipObstacle(pd, obstacle) THEN pd
    ELSE IF OutOfPathRange(frenet_points, obstacle.sl_boundary)
    THEN AddLateralDecision(pd, "PathDecider", obstacle.id, Ignore)
    ELSE LateralBranchDecision(pd, obstacle,
             EvaluateByS(frenet_points, obstacle.sl_boundary.start_s))

\* one iteration of the loop over the path obstacles
ObstacleDecision(pd, obstacle) ==
    IF SkipObstacle(pd, obstacle) THEN pd
    ELSE IF OutOfPathRange(frenet_points, obstacle.sl_boundary)
    THEN AddLateralDecision(
             AddLongitudinalDecision(pd, "PathDecider", obstacle.id, Ignore),
             "PathDecider", obstacle.id, Ignore)
    ELSE LateralBranchDecision(pd, obstacle,
             EvaluateByS(frenet_points, obstacle.sl_boundary.start_s))

RECURSIVE ObstacleLoop(_, _)
ObstacleLoop(pd, its) ==
    IF its = <<>> THEN pd
    ELSE ObstacleLoop(ObstacleDecision(pd, path_obstacles[Head(its)]), Tail(its))

\* an empty path is reported as success
MakeStaticObstacleDecision_EmptyOk(pd) ==
    IF frenet_points = <<>>
    THEN [ok |-> TRUE, path_decision |-> pd]
    ELSE [ok |-> TRUE, path_decision |-> ObstacleLoop(pd, items)]

MakeStaticObstacleDecision(pd) ==
    IF frenet_points = <<>>
    THEN [ok |-> FALSE, path_decision |-> pd]
    ELSE [ok |-> TRUE, path_decision |-> ObstacleLoop(pd, items)]

MakeObjectDecision(pd) ==
    LET r == MakeStaticObstacleDecision(pd)
    IN  IF ~r.ok THEN [ok |-> FALSE, path_decision |-> r.path_decision]
        ELSE [ok |-> TRUE, path_decision |-> r.path_decision]

ProcessStatus(ok) == IF ~ok THEN "PLANNING_ERROR" ELSE "OK"

\* PathDecider::Execute -> Process(path_data, path_decision)
Process ==
    /\ LET r == MakeObjectDecision(path_decision)
       IN  /\ path_decision' = r.path_decision
           /\ status' = ProcessStatus(r.ok)
    /\ UNCHANGED <<frenet_points, items, path_obstacles, flags, vehicle,
                   adc_sl_boundary, stop_distances>>

---------------------------------------------------------------------------
(* The inputs of one planning cycle. *)

LBoxes ==
    {b \in [start_l : -MaxL..MaxL, end_l : -MaxL..MaxL] : b.start_l <= b.end_l}

SLBoundaries ==
    {[start_s |-> s, start_l |-> b.start_l, end_l |-> b.end_l] :
        s \in 0..(MaxS + 1), b \in LBoxes}

\* static obstacles with either boundary type, and moving obstacles
Obstacles(id) ==
    {[id |-> id, is_static |-> k[1], boundary_type |-> k[2], sl_boundary |-> sl] :
        k \in {<<TRUE, "UNKNOWN">>, <<TRUE, "KEEP_CLEAR">>, <<FALSE, "UNKNOWN">>},
        sl \in SLBoundaries}

\* a stop that an earlier decision stage left in the ledger
OtherStop ==
    [reason_code |-> "STOP_REASON_SIGNAL", distance_s |-> D(-2),
     stop_point |-> [x |-> D(0), y |-> D(0)], stop_heading |-> D(0)]

PriorLongitudinal == {Unset, Slot("Other", Ignore), Slot("Other", Stop(OtherStop))}
PriorLateral == {Unset, Slot("Other", Ignore), Slot("Other", Nudge("LEFT_NUDGE", 1))}

\* no samples, a flat two-sample path, a two-sample path drifting to the left
Paths ==
    {<<>>,
     <<[s |-> 1, l |-> 0], [s |-> MaxS, l |-> 0]>>,
     <<[s |-> 1, l |-> 0], [s |-> MaxS, l |-> MaxS - 1]>>}

\* (lateral_ignore_buffer, static_decision_nudge_l_buffer): the stop radius
\* below, equal to and (misconfigured) above the ignore radius
Buffers == {<<1, 0>>, <<1, 1>>, <<0, 2>>}

Flags ==
    {[lateral_ignore_buffer |-> b[1],
      static_decision_nudge_l_buffer |-> b[2],
      enable_nudge_decision |-> en,
      nudge_distance_obstacle |-> 1,
      destination_obstacle_id |-> dest,
      stop_distance_destination |-> 1,
      max_stop_distance_obstacle |-> 4,
      min_stop_distance_obstacle |-> 1] :
        b \in Buffers, en \in BOOLEAN, dest \in {"1", "DEST"}}

\* the obstacle that precedes the varied one in the ledger: a moving one on
\* the path, or a static one before the path
Probes(id) ==
    {[id |-> id, is_static |-> st, boundary_type |-> "UNKNOWN",
      sl_boundary |-> [start_s |-> IF st THEN 0 ELSE 1,
                       start_l |-> 0, end_l |-> 0]] : st \in BOOLEAN}

Vehicles == {[width |-> 2, min_turn_radius |-> r] : r \in {2, MaxRadius}}

NoResults(ids) == [id \in ids |-> [done |-> FALSE, value |-> D(0)]]

Init ==
    /\ frenet_points \in Paths
    /\ items = <<"2", "1">>
    /\ \E probe \in Probes("2"), obstacle \in Obstacles("1") :
           path_obstacles = [id \in {"1", "2"} |->
                                 IF id = "1" THEN obstacle ELSE probe]
    /\ \E lon \in PriorLongitudinal, lat \in PriorLateral :
           path_decision = [id \in {"1", "2"} |->
               IF id = "1" THEN [longitudinal |-> lon, lateral |-> lat]
               ELSE [longitudinal |-> Unset, lateral |-> Unset]]
    /\ flags \in Flags
    /\ vehicle \in Vehicles
    /\ adc_sl_boundary = [start_l |-> -2, end_l |-> 0]
    /\ status = "none"
    /\ stop_distances = NoResults({"1", "2"})

Next == Process

Spec == Init /\ [][Next]_vars

---------------------------------------------------------------------------
(* The stop-distance calculator on its own: two obstacle boxes, one vehicle, *)
(* one clamp range; each step applies the calculator to one of the boxes.    *)

\* [min_stop_distance_obstacle, max_stop_distance_obstacle], min <= max
StopRanges ==
    {r \in (1..MaxRadius) \X (1..(MaxRadius + 1)) : r[1] <= r[2]}

CalcFlags ==
    {[lateral_ignore_buffer |-> 1,
      static_decision_nudge_l_buffer |-> 0,
      enable_nudge_decision |-> TRUE,
      nudge_distance_obstacle |-> 1,
      destination_obstacle_id |-> "DEST",
      stop_distance_destination |-> 1,
      max_stop_distance_obstacle |-> r[2],
      min_stop_distance_obstacle |-> r[1]] : r \in StopRanges}

CalcObstacles(id) ==
    {[id |-> id, is_static |-> TRUE, boundary_type |-> "UNKNOWN",
      sl_boundary |-> [start_s |-> 1, start_l |-> b.start_l, end_l |-> b.end_l]] :
        b \in LBoxes}

InitCalc ==
    /\ frenet_points = <<[s |-> 1, l |-> 0], [s |-> MaxS, l |-> 0]>>
    /\ items = <<"1", "2">>
    /\ \E o1 \in CalcObstacles("1"), o2 \in CalcObstacles("2") :
           path_obstacles = [id \in {"1", "2"} |-> IF id = "1" THEN o1 ELSE o2]
    /\ path_decision =
           [id \in {"1", "2"} |-> [longitudinal |-> Unset, lateral |-> Unset]]
    /\ flags \in CalcFlags
    /\ vehicle \in {[width |-> 2, min_turn_radius |-> r] : r \in 2..MaxRadius}
    /\ adc_sl_boundary \in {[start_l |-> -2, end_l |-> 0],
                            [start_l |-> -1, end_l |-> 1]}
    /\ status = "none"
    /\ stop_distances = NoResults({"1", "2"})

\* a call of MinimumRadiusStopDistance(path_obstacle)
Calculate(id) ==
    /\ ~stop_distances[id].done
    /\ stop_distances' =
           [stop_distances EXCEPT
               ![id] = [done |-> TRUE,
                        value |-> MinimumRadiusStopDistance(
                                      path_obstacles[id], adc_sl_boundary,
                                      vehicle, flags)]]
    /\ UNCHANGED <<frenet_points, items, path_obstacles, path_decision, flags,
                   vehicle, adc_sl_boundary, status>>

NextCalc == \E id \in {"1", "2"} : Calculate(id)

SpecCalc == InitCalc /\ [][NextCalc]_vars

---------------------------------------------------------------------------
(* Properties of the decision policy, checked under Spec. *)

Ids == DOMAIN path_obstacles

LonIsStop(pd, id) ==
    pd[id].longitudinal.has /\ pd[id].longitudinal.decision.object_tag = "stop"
LonIsIgnore(pd, id) ==
    pd[id].longitudinal.has /\ pd[id].longitudinal.decision.object_tag = "ignore"
LatIsIgnore(pd, id) ==
    pd[id].lateral.has /\ pd[id].lateral.decision.object_tag = "ignore"

\* the obstacle's start_s lies within [path.first.s, path.last.s]
InPathSpan(id) ==
    /\ frenet_points /= <<>>
    /\ path_obstacles[id].sl_boundary.start_s >= frenet_points[1].s
    /\ path_obstacles[id].sl_boundary.start_s
           <= frenet_points[Len(frenet_points)].s
BeyondPathSpan(id) ==
    /\ frenet_points /= <<>>
    /\ \/ path_obstacles[id].sl_boundary.start_s < frenet_points[1].s
       \/ path_obstacles[id].sl_boundary.start_s
              > frenet_points[Len(frenet_points)].s

\* the path's lateral offset at the obstacle's start_s
CurrL(id) == EvaluateByS(frenet_points, path_obstacles[id].sl_boundary.start_s)
IgnoreRadius == vehicle.width \div 2 + flags.lateral_ignore_buffer
StopRadius == vehicle.width \div 2 + flags.static_decision_nudge_l_buffer

\* the footprint overlaps the tight corridor
OverlapsTightCorridor(id) ==
    /\ CurrL(id) - StopRadius < path_obstacles[id].sl_boundary.end_l
    /\ CurrL(id) + StopRadius > path_obstacles[id].sl_boundary.start_l

\* a static obstacle that none of the loop's `continue`s skips
Adjudicated(pd, id) ==
    /\ path_obstacles[id].is_static
    /\ path_obstacles[id].boundary_type /= "KEEP_CLEAR"
    /\ ~LonIsStop(pd, id)
    /\ ~(LonIsIgnore(pd, id) /\ LatIsIgnore(pd, id))

\* C1: a static obstacle that holds a longitudinal Stop when decide is
\* invoked keeps both of its slots as they are, in every invocation.
C1_StopNeverOverwritten ==
    [][\A id \in Ids :
          (path_obstacles[id].is_static /\ LonIsStop(path_decision, id))
              => path_decision'[id] = path_decision[id]]_vars

\* C1 witness: decide has run on a static obstacle inside the tight corridor
\* that another stage had stopped for.
C1_Witness ==
    /\ status = "OK"
    /\ \E id \in Ids :
           /\ path_obstacles[id].is_static
           /\ path_obstacles[id].boundary_type /= "KEEP_CLEAR"
           /\ InPathSpan(id) /\ OverlapsTightCorridor(id)
           /\ path_decision[id].longitudinal = Slot("Other", Stop(OtherStop))
           /\ path_decision[id].lateral = Slot("Other", Nudge("LEFT_NUDGE", 1))

\* C2: at the configurations the policy expects (stop radius <= ignore
\* radius), for a static, non-keep-clear, not skipped obstacle that starts
\* within the path's span and overlaps the tight corridor, decide writes a
\* Stop with distance_s < 0 to the longitudinal slot and leaves the lateral
\* slot alone.
C2_StopWithNegativeDistance ==
    [][\A id \in Ids :
          (/\ StopRadius <= IgnoreRadius
           /\ Adjudicated(path_decision, id)
           /\ InPathSpan(id)
           /\ OverlapsTightCorridor(id))
              => /\ path_decision'[id].longitudinal.decider = "PathDecider"
                 /\ LonIsStop(path_decision', id)
                 /\ path_decision'[id].lateral = path_decision[id].lateral
                 /\ Less(path_decision'[id].longitudinal.decision.stop.distance_s,
                         D(0))]_vars

\* C3 as stated: after decide on a non-empty path, every obstacle that starts
\* outside the path's span holds Ignore on both axes.
C3_Original ==
    [][\A id \in Ids :
          BeyondPathSpan(id)
              => LonIsIgnore(path_decision', id) /\ LatIsIgnore(path_decision', id)]_vars

\* C3 as amended: after decide on a non-empty path, every static,
\* non-keep-clear obstacle that starts outside the path's span and did not
\* already hold a longitudinal Stop holds Ignore on both axes.
C3_OutOfSpanIgnored ==
    [][\A id \in Ids :
          (/\ BeyondPathSpan(id)
           /\ path_obstacles[id].is_static
           /\ path_obstacles[id].boundary_type /= "KEEP_CLEAR"
           /\ ~LonIsStop(path_decision, id))
              => LonIsIgnore(path_decision', id) /\ LatIsIgnore(path_decision', id)]_vars

\* C3 witness: decide has written both Ignores for an obstacle beyond the span.
C3_Witness ==
    /\ status = "OK"
    /\ \E id \in Ids :
           /\ BeyondPathSpan(id)
           /\ path_obstacles[id].sl_boundary.start_s > 0
           /\ path_decision[id].longitudinal = Slot("PathDecider", Ignore)
           /\ path_decision[id].lateral = Slot("PathDecider", Ignore)

\* C4: decide leaves the record of an obstacle as it is when the obstacle is
\* not static, holds Ignore on both axes or is tagged keep-clear; when every
\* static obstacle holds Ignore on both axes, decide changes nothing.
C4_SkippedObstaclesUntouched ==
    [][/\ \A id \in Ids :
              (\/ ~path_obstacles[id].is_static
               \/ LonIsIgnore(path_decision, id) /\ LatIsIgnore(path_decision, id)
               \/ path_obstacles[id].boundary_type = "KEEP_CLEAR")
                  => path_decision'[id] = path_decision[id]
       /\ (\A id \in Ids :
               path_obstacles[id].is_static
                   => LonIsIgnore(path_decision, id) /\ LatIsIgnore(path_decision, id))
              => path_decision' = path_decision]_vars

\* C4 witness: decide has run over a static keep-clear obstacle that lies in
\* the tight corridor and still has no decision.
C4_Witness ==
    /\ status = "OK"
    /\ \E id \in Ids :
           /\ path_obstacles[id].is_static
           /\ path_obstacles[id].boundary_type = "KEEP_CLEAR"
           /\ InPathSpan(id) /\ OverlapsTightCorridor(id)
           /\ path_decision[id] = [longitudinal |-> Unset, lateral |-> Unset]

\* C7: a call on a path without samples returns PLANNING_ERROR and leaves no
\* decision of this stage in the ledger; a call on a path with samples
\* returns OK.
C7_EmptyPathFails ==
    status /= "none" =>
        IF frenet_points = <<>>
        THEN /\ status = "PLANNING_ERROR"
             /\ \A id \in Ids :
                    /\ path_decision[id].longitudinal.decider /= "PathDecider"
                    /\ path_decision[id].lateral.decider /= "PathDecider"
        ELSE status = "OK"

\* C7 witness: decide has failed on an empty path with an undecided static
\* obstacle in the ledger.
C7_Witness ==
    /\ status = "PLANNING_ERROR"
    /\ \E id \in Ids :
           /\ path_obstacles[id].is_static
           /\ path_obstacles[id].boundary_type /= "KEEP_CLEAR"
           /\ path_decision[id] = [longitudinal |-> Unset, lateral |-> Unset]

\* the stop that this stage wrote for the obstacle
BuiltStop(id) == path_decision[id].longitudinal.decision.stop
HasBuiltStop(id) ==
    /\ path_decision[id].longitudinal.decider = "PathDecider"
    /\ LonIsStop(path_decision, id)

\* C8: a stop built by this stage has reason Destination and distance_s =
\* -stop_distance_destination exactly when the obstacle is the destination
\* obstacle; otherwise it has reason Obstacle and distance_s =
\* -MinimumRadiusStopDistance; its stop point is the reference point at
\* start_s - stop_distance.
C8_StopReasonAndDistance ==
    \A id \in Ids :
        HasBuiltStop(id) =>
            LET stop_distance == Neg(BuiltStop(id).distance_s)
                ref == GetReferencePoint(
                           Minus(D(path_obstacles[id].sl_boundary.start_s),
                                 stop_distance))
            IN  /\ (/\ BuiltStop(id).reason_code = "STOP_REASON_DESTINATION"
                    /\ BuiltStop(id).distance_s
                           = D(-flags.stop_distance_destination))
                       <=> (id = flags.destination_obstacle_id)
                /\ id /= flags.destination_obstacle_id
                       => /\ BuiltStop(id).reason_code = "STOP_REASON_OBSTACLE"
                          /\ BuiltStop(id).distance_s
                                 = Neg(MinimumRadiusStopDistance(
                                           path_obstacles[id], adc_sl_boundary,
                                           vehicle, flags))
                /\ BuiltStop(id).stop_point = [x |-> ref.x, y |-> ref.y]
                /\ BuiltStop(id).stop_heading = ref.heading

\* C8 witness: this stage has stopped for the destination obstacle, whose
\* box is wider than the vehicle.
C8_Witness ==
    \E id \in Ids :
        /\ HasBuiltStop(id)
        /\ id = flags.destination_obstacle_id
        /\ path_obstacles[id].sl_boundary.end_l
               - path_obstacles[id].sl_boundary.start_l > vehicle.width

\* C9: with nudging enabled and stop radius <= ignore radius, a left nudge of
\* this stage has distance +nudge_distance and an obstacle entirely to the
\* right (curr_l - stop radius > end_l); a right nudge has distance
\* -nudge_distance and an obstacle entirely to the left
\* (start_l >= curr_l + stop radius).
C9_NudgeAwayFromObstacle ==
    \A id \in Ids :
        (/\ flags.enable_nudge_decision
         /\ StopRadius <= IgnoreRadius
         /\ path_decision[id].lateral.decider = "PathDecider"
         /\ path_decision[id].lateral.decision.object_tag = "nudge")
            => LET nudge == path_decision[id].lateral.decision
                   sl == path_obstacles[id].sl_boundary
               IN  /\ nudge.type = "LEFT_NUDGE"
                          => /\ nudge.distance_l = flags.nudge_distance_obstacle
                             /\ CurrL(id) - StopRadius > sl.end_l
                   /\ nudge.type = "RIGHT_NUDGE"
                          => /\ nudge.distance_l = -flags.nudge_distance_obstacle
                             /\ sl.start_l >= CurrL(id) + StopRadius


---------------------------------------------------------------------------
(* Properties of the stop-distance calculator, checked under SpecCalc. *)

\* a <= b on doubles: false when either side is NaN
LessEq(a, b) == ~a.nan /\ ~b.nan /\ a.v <= b.v

\* the clamped lateral_diff the calculator works with for the obstacle
ClampedLateralDiff(id) ==
    LateralDiff(path_obstacles[id], adc_sl_boundary, vehicle)

\* C5: every value MinimumRadiusStopDistance returns lies within
\* [min_stop_distance_obstacle, max_stop_distance_obstacle].
C5_StopDistanceWithinRange ==
    \A id \in Ids :
        stop_distances[id].done
            => /\ LessEq(D(flags.min_stop_distance_obstacle),
                         stop_distances[id].value)
               /\ LessEq(stop_distances[id].value,
                         D(flags.max_stop_distance_obstacle))

\* C6, on the inputs for which the calculator returns a number: for one
\* turning radius and one clamp range, a smaller or equal clamped
\* lateral_diff gives a smaller or equal stop distance.
C6_MonotoneInLateralDiff ==
    \A a \in Ids, b \in Ids :
        (/\ stop_distances[a].done /\ ~stop_distances[a].value.nan
         /\ stop_distances[b].done /\ ~stop_distances[b].value.nan
         /\ ClampedLateralDiff(a) <= ClampedLateralDiff(b))
            => stop_distances[a].value.v <= stop_distances[b].value.v

\* C10: for every input the calculator has been applied to, the argument of
\* the square root is non-negative and the returned stop distance is a
\* number.
C10_RadicandNonNegative ==
    \A id \in Ids :
        stop_distances[id].done
            => /\ Radicand(vehicle.min_turn_radius, ClampedLateralDiff(id)) >= 0
               /\ ~stop_distances[id].value.nan


=============================================================================
